---- MODULE Spec2Model ----
(***************************************************************************)
(* Model of packaging/os/yum_repository.py: the YumRepo class (one INI     *)
(* repo file: load, add, remove, dump, save), the ManagedMode class (the   *)
(* .managed ledger: enable, disable, add, remove, process) and main(),     *)
(* which runs one request against the repos directory.                     *)
(*                                                                         *)
(* Text is modelled by what it holds: a string value is a sequence of      *)
(* pieces (one character each, or a word the program never looks inside),  *)
(* a file is a sequence of lines, a line is a record ([h] section header,  *)
(* [k, v] option, [b] blank line).                                         *)
(***************************************************************************)
EXTENDS Integers, Sequences, FiniteSets, TLC

VARIABLES
    files,      \* the *.repo files of reposdir: file id -> lines of the file
    ledger,     \* reposdir/.managed: [exists, lines]
    last        \* the request that ran last, with what main() saw and reported

vars == <<files, ledger, last>>

(***************************************************************************)
(* Bounds of the model.                                                    *)
(***************************************************************************)
\* longest run of blanks that ends a value given in a request
MaxPad == 1

(***************************************************************************)
(* Python values of module.params.                                         *)
(***************************************************************************)
PyNone == [t |-> "none"]
Str(s) == [t |-> "str", s |-> s]
Bool(b) == [t |-> "bool", b |-> b]
List(l) == [t |-> "list", l |-> l]

IsNone(value) == value.t = "none"

\* the name a one-piece string value holds: a repo id, a file name, a state
NameOf(value) == value.s[1]

\* YumRepo.allowed_params
allowed_params ==
    { "async", "bandwidth", "baseurl", "cost",
      "deltarpm_metadata_percentage", "deltarpm_percentage", "enabled",
      "enablegroups", "exclude", "failovermethod", "gpgcakey", "gpgcheck",
      "gpgkey", "http_caching", "include", "includepkgs", "ip_resolve",
      "keepalive", "keepcache", "metadata_expire", "metadata_expire_filter",
      "metalink", "mirrorlist", "mirrorlist_expire", "name", "password",
      "priority", "protect", "proxy", "proxy_password", "proxy_username",
      "repo_gpgcheck", "retries", "s3_enabled", "skip_if_unavailable",
      "sslcacert", "ssl_check_cert_permissions", "sslclientcert",
      "sslclientkey", "sslverify", "throttle", "timeout", "ui_repoid_vars",
      "username" }

\* YumRepo.list_params
list_params == {"exclude", "includepkgs"}

(***************************************************************************)
(* sorted(): the keys and the names of the model, in Python's string order *)
(***************************************************************************)
SortedKeys ==
    << "baseurl", "dest", "enabled", "exclude", "file", "foo",
       "ignore_repo_files", "mirrorlist", "name", "repoid", "reposdir",
       "state" >>

SortedNames == <<"a", "b", "c">>

\* the place of the first x in seq, 0 when seq has none
IndexIn(seq, x) ==
    IF \E i \in 1..Len(seq) : seq[i] = x
    THEN CHOOSE i \in 1..Len(seq) :
            seq[i] = x /\ \A j \in 1..(i - 1) : seq[j] # x
    ELSE 0

\* sorted(d) for a set of keys / of names: the members, in string order
SortedIn(order, set) == SelectSeq(order, LAMBDA x : x \in set)

(***************************************************************************)
(* ConfigParser.RawConfigParser, as YumRepo uses it.  A document is the    *)
(* ordered dictionary of sections (_sections), each an ordered dictionary  *)
(* of options: <<[name, opts]>> with opts = <<[k, v]>>.                    *)
(***************************************************************************)
IsSpace(c) == c = " "

RECURSIVE LStrip(_)
LStrip(s) == IF s # <<>> /\ IsSpace(Head(s)) THEN LStrip(Tail(s)) ELSE s

RECURSIVE RStrip(_)
RStrip(s) ==
    IF s # <<>> /\ IsSpace(s[Len(s)])
    THEN RStrip(SubSeq(s, 1, Len(s) - 1))
    ELSE s

\* the value RawConfigParser.read() stores for the text that follows
\* "key =" on an option line: blanks around it are dropped, as is an inline
\* comment (a ";" that follows a blank), and '""' reads as the empty string
ParseValue(raw) ==
    LET v0 == LStrip(raw)
        pos == IndexIn(v0, ";")
        before == IF pos = 1 THEN v0[Len(v0)] ELSE v0[pos - 1]
        v1 == IF pos > 0 /\ IsSpace(before) THEN SubSeq(v0, 1, pos - 1) ELSE v0
        v2 == RStrip(v1)
    IN  IF v2 = <<"\"", "\"">> THEN <<>> ELSE v2

sections(doc) == [i \in 1..Len(doc) |-> doc[i].name]

has_section(doc, section) == \E i \in 1..Len(doc) : doc[i].name = section

remove_section(doc, section) == SelectSeq(doc, LAMBDA s : s.name # section)

add_section(doc, section) == Append(doc, [name |-> section, opts |-> <<>>])

\* an ordered dictionary after d[k] = v: a known key keeps its place
SetOpt(opts, k, v) ==
    IF \E i \in 1..Len(opts) : opts[i].k = k
    THEN [i \in 1..Len(opts) |->
            IF opts[i].k = k THEN [k |-> k, v |-> v] ELSE opts[i]]
    ELSE Append(opts, [k |-> k, v |-> v])

\* RawConfigParser.set(section, key, value)
set(doc, section, k, v) ==
    [i \in 1..Len(doc) |->
        IF doc[i].name = section
        THEN [name |-> section, opts |-> SetOpt(doc[i].opts, k, v)]
        ELSE doc[i]]

\* sorted(RawConfigParser.items(section)): the options, by key
SortOpts(opts) ==
    LET keys == SortedIn(SortedKeys, {opts[i].k : i \in 1..Len(opts)}) IN
    [i \in 1..Len(keys) |->
        opts[CHOOSE j \in 1..Len(opts) : opts[j].k = keys[i]]]

SectionOf(doc, section) ==
    LET i == CHOOSE i \in 1..Len(doc) : doc[i].name = section IN doc[i]

\* RawConfigParser.read(): the lines of a file, parsed
RECURSIVE ReadLines(_, _, _)
ReadLines(lines, doc, cursect) ==
    IF lines = <<>> THEN doc
    ELSE LET line == Head(lines) IN
         IF "h" \in DOMAIN line
         THEN ReadLines(Tail(lines),
                        IF has_section(doc, line.h) THEN doc
                        ELSE add_section(doc, line.h),
                        line.h)
         ELSE IF "k" \in DOMAIN line
         THEN ReadLines(Tail(lines),
                        set(doc, cursect, line.k, Str(ParseValue(line.v))),
                        cursect)
         ELSE ReadLines(Tail(lines), doc, cursect)

read(lines) == ReadLines(lines, <<>>, "")

\* RawConfigParser.write(): every section in dictionary order, its options
\* in dictionary order, a blank line after each section
RECURSIVE write(_)
write(doc) ==
    IF doc = <<>> THEN <<>>
    ELSE <<[h |-> Head(doc).name]>> \o Head(doc).opts \o <<[b |-> TRUE]>>
         \o write(Tail(doc))

(***************************************************************************)
(* class YumRepo                                                           *)
(***************************************************************************)
\* str(value), as "%s" % value in dump() and str(value) in write() give it
StrOf(value) ==
    IF value.t = "int" THEN (IF value.n = 1 THEN <<"1">> ELSE <<"0">>)
    ELSE value.s

\* ' '.join(value)
RECURSIVE Join(_)
Join(l) ==
    IF l = <<>> THEN <<>>
    ELSE IF Len(l) = 1 THEN Head(l)
    ELSE Head(l) \o <<" ">> \o Join(Tail(l))

\* the value add() hands to set() for a key
Coerce(key, value) ==
    IF key \in list_params /\ value.t = "list" THEN Str(Join(value.l))
    ELSE IF value.t = "bool"
         THEN [t |-> "int", n |-> IF value.b THEN 1 ELSE 0]
         ELSE value

\* YumRepo.__init__: the document read from dest, empty if dest is no file
YumRepoInit(fs, file) == IF file \in DOMAIN fs THEN read(fs[file]) ELSE <<>>

\* add() with the test of allowed_params left out
RECURSIVE SetOptionsAnyKey(_, _, _, _)
SetOptionsAnyKey(doc, section, params, keys) ==
    IF keys = <<>> THEN doc
    ELSE LET key == Head(keys)
             value == Coerce(key, params[key])
         IN  SetOptionsAnyKey(
                 IF ~IsNone(value) /\ value.t # "list"
                 THEN set(doc, section, key, value)
                 ELSE doc,
                 section, params, Tail(keys))

\* the loop of add() over sorted(self.params.items())
RECURSIVE SetOptions(_, _, _, _)
SetOptions(doc, section, params, keys) ==
    IF keys = <<>> THEN doc
    ELSE LET key == Head(keys)
             value == Coerce(key, params[key])
         IN  SetOptions(
                 IF ~IsNone(value) /\ key \in allowed_params
                 THEN set(doc, section, key, value)
                 ELSE doc,
                 section, params, Tail(keys))

\* add() that sets the options in the section it finds, without removing it
YumRepoAddMerge(doc, section, params) ==
    LET d2 == IF has_section(doc, section) THEN doc
              ELSE add_section(doc, section)
    IN  IF IsNone(params["baseurl"]) /\ IsNone(params["mirrorlist"])
        THEN [doc |-> d2, failed |-> TRUE]
        ELSE [doc |-> SetOptions(d2, section, params,
                                 SortedIn(SortedKeys, DOMAIN params)),
              failed |-> FALSE]

\* add() that starts from a document with no section
YumRepoAddAlone(doc, section, params) ==
    LET d2 == add_section(<<>>, section)
    IN  IF IsNone(params["baseurl"]) /\ IsNone(params["mirrorlist"])
        THEN [doc |-> d2, failed |-> TRUE]
        ELSE [doc |-> SetOptions(d2, section, params,
                                 SortedIn(SortedKeys, DOMAIN params)),
              failed |-> FALSE]

\* YumRepo.add: [doc, failed]
YumRepoAdd(doc, section, params) ==
    LET d1 == IF has_section(doc, section)
              THEN remove_section(doc, section)
              ELSE doc
        d2 == add_section(d1, section)
    IN  IF IsNone(params["baseurl"]) /\ IsNone(params["mirrorlist"])
        THEN [doc |-> d2, failed |-> TRUE]
        ELSE [doc |-> SetOptions(d2, section, params,
                                 SortedIn(SortedKeys, DOMAIN params)),
              failed |-> FALSE]

\* YumRepo.remove
YumRepoRemove(doc, section) ==
    IF has_section(doc, section) THEN remove_section(doc, section) ELSE doc

\* the lines dump() composes for one section
DumpSection(s) ==
    LET items == SortOpts(s.opts) IN
    <<[h |-> s.name]>>
    \o [i \in 1..Len(items) |-> [k |-> items[i].k, v |-> StrOf(items[i].v)]]
    \o <<[b |-> TRUE]>>

RECURSIVE DumpSections(_, _)
DumpSections(doc, names) ==
    IF names = <<>> THEN <<>>
    ELSE DumpSection(SectionOf(doc, Head(names)))
         \o DumpSections(doc, Tail(names))

\* YumRepo.dump
dump(doc) ==
    DumpSections(doc,
        SortedIn(SortedNames, {doc[i].name : i \in 1..Len(doc)}))

\* the lines RawConfigParser.write() puts in the file for the document
WriteLines(doc) ==
    write([i \in 1..Len(doc) |->
            [name |-> doc[i].name,
             opts |-> [j \in 1..Len(doc[i].opts) |->
                        [k |-> doc[i].opts[j].k,
                         v |-> StrOf(doc[i].opts[j].v)]]]])

\* save() that writes the file whatever the number of sections
YumRepoSaveAlways(fs, file, doc, io_fails) ==
    IF io_fails
    THEN [files |-> fs, failed |-> TRUE]
    ELSE [files |-> [f \in DOMAIN fs \cup {file} |->
                        IF f = file THEN WriteLines(doc) ELSE fs[f]],
          failed |-> FALSE]

\* YumRepo.save: [files, failed].  io_fails: the system refuses the open()
\* for writing or the os.remove() of dest (IOError, OSError); os.remove()
\* of a file that does not exist raises OSError by itself
YumRepoSave(fs, file, doc, io_fails) ==
    IF Len(sections(doc)) > 0
    THEN IF io_fails
         THEN [files |-> fs, failed |-> TRUE]
         ELSE [files |-> [f \in DOMAIN fs \cup {file} |->
                            IF f = file THEN WriteLines(doc) ELSE fs[f]],
               failed |-> FALSE]
    ELSE IF file \in DOMAIN fs /\ ~io_fails
         THEN [files |-> [f \in DOMAIN fs \ {file} |-> fs[f]],
               failed |-> FALSE]
         ELSE [files |-> fs, failed |-> TRUE]

(***************************************************************************)
(* class ManagedMode.  Every method gives [ledger, changed].               *)
(***************************************************************************)
\* enable() that truncates in check mode too
MMEnableUnguarded(l, check_mode) ==
    LET file_exists == l.exists IN
    [ledger |-> IF ~file_exists \/ Len(l.lines) > 0
                THEN [exists |-> TRUE, lines |-> <<>>]
                ELSE l,
     changed |-> (~file_exists \/ Len(l.lines) > 0) /\ ~file_exists]

\* enable() that registers a change whenever it creates or truncates
MMEnableTruncateChanges(l, check_mode) ==
    LET file_exists == l.exists IN
    [ledger |-> IF (~file_exists \/ Len(l.lines) > 0) /\ ~check_mode
                THEN [exists |-> TRUE, lines |-> <<>>]
                ELSE l,
     changed |-> ~file_exists \/ Len(l.lines) > 0]

\* enable() that registers a change on every call
MMEnableAlwaysChanged(l, check_mode) ==
    LET file_exists == l.exists IN
    [ledger |-> IF (~file_exists \/ Len(l.lines) > 0) /\ ~check_mode
                THEN [exists |-> TRUE, lines |-> <<>>]
                ELSE l,
     changed |-> TRUE]

\* ManagedMode.enable
MMEnable(l, check_mode) ==
    LET file_exists == l.exists IN
    [ledger |-> IF (~file_exists \/ Len(l.lines) > 0) /\ ~check_mode
                THEN [exists |-> TRUE, lines |-> <<>>]
                ELSE l,
     changed |-> (~file_exists \/ Len(l.lines) > 0) /\ ~file_exists]

\* disable() that empties the managed file and leaves it on disk
MMDisableTruncates(l, check_mode) ==
    IF l.exists
    THEN [ledger |-> IF ~check_mode
                     THEN [exists |-> TRUE, lines |-> <<>>]
                     ELSE l,
          changed |-> TRUE]
    ELSE [ledger |-> l, changed |-> FALSE]

\* ManagedMode.disable
MMDisable(l, check_mode) ==
    IF l.exists
    THEN [ledger |-> IF ~check_mode
                     THEN [exists |-> FALSE, lines |-> <<>>]
                     ELSE l,
          changed |-> TRUE]
    ELSE [ledger |-> l, changed |-> FALSE]

\* add() that creates the managed file when there is none
MMAddCreates(l, repo_file, check_mode) ==
    IF l.exists
    THEN LET found == \E i \in 1..Len(l.lines) : l.lines[i] = repo_file IN
         IF ~found
         THEN [ledger |-> IF ~check_mode
                          THEN [l EXCEPT !.lines = Append(@, repo_file)]
                          ELSE l,
               changed |-> TRUE]
         ELSE [ledger |-> l, changed |-> FALSE]
    ELSE [ledger |-> IF ~check_mode
                     THEN [exists |-> TRUE, lines |-> <<repo_file>>]
                     ELSE l,
          changed |-> TRUE]

\* add() that does not look for the repo file among the lines
MMAddAlways(l, repo_file, check_mode) ==
    IF l.exists
    THEN [ledger |-> IF ~check_mode
                     THEN [l EXCEPT !.lines = Append(@, repo_file)]
                     ELSE l,
          changed |-> TRUE]
    ELSE [ledger |-> l, changed |-> FALSE]

\* add() that writes the repo file name before the lines of the file
MMAddFirst(l, repo_file, check_mode) ==
    IF l.exists
    THEN LET found == \E i \in 1..Len(l.lines) : l.lines[i] = repo_file IN
         IF ~found
         THEN [ledger |-> IF ~check_mode
                          THEN [l EXCEPT !.lines = <<repo_file>> \o @]
                          ELSE l,
               changed |-> TRUE]
         ELSE [ledger |-> l, changed |-> FALSE]
    ELSE [ledger |-> l, changed |-> FALSE]

\* ManagedMode.add
MMAdd(l, repo_file, check_mode) ==
    IF l.exists
    THEN LET found == \E i \in 1..Len(l.lines) : l.lines[i] = repo_file IN
         IF ~found
         THEN [ledger |-> IF ~check_mode
                          THEN [l EXCEPT !.lines = Append(@, repo_file)]
                          ELSE l,
               changed |-> TRUE]
         ELSE [ledger |-> l, changed |-> FALSE]
    ELSE [ledger |-> l, changed |-> FALSE]

\* a loop that adds only the first of the remaining lines back
AddBackFirstOnly(l, lines) ==
    IF lines = <<>> THEN l
    ELSE MMAdd(l, Head(lines), FALSE).ledger

\* the loop of remove() that adds the remaining lines back
RECURSIVE AddBack(_, _)
AddBack(l, lines) ==
    IF lines = <<>> THEN l
    ELSE AddBack(MMAdd(l, Head(lines), FALSE).ledger, Tail(lines))

\* lines.pop(found)
Pop(lines, found) ==
    SubSeq(lines, 1, found - 1) \o SubSeq(lines, found + 1, Len(lines))

\* remove() that clears the file and adds no line back
MMRemoveNoRebuild(l, repo_file, check_mode) ==
    IF l.exists
    THEN LET found == IndexIn(l.lines, repo_file) IN
         [ledger |-> IF ~check_mode THEN MMEnable(l, FALSE).ledger ELSE l,
          changed |-> found > 0]
    ELSE [ledger |-> l, changed |-> FALSE]

\* ManagedMode.remove
MMRemove(l, repo_file, check_mode) ==
    IF l.exists
    THEN LET found == IndexIn(l.lines, repo_file)
             lines == IF found > 0 THEN Pop(l.lines, found) ELSE l.lines
         IN  [ledger |-> IF ~check_mode
                          THEN AddBack(MMEnable(l, FALSE).ledger, lines)
                          ELSE l,
              changed |-> found > 0]
    ELSE [ledger |-> l, changed |-> FALSE]

\* the loop of process() over the repo files glob() listed:
\* [files, ledger, changed, crashed]
RECURSIVE ProcessFiles(_, _, _, _, _, _, _)
ProcessFiles(fs, l, managed_files, params, check_mode, repo_files, changed) ==
    IF repo_files = <<>>
    THEN [files |-> fs, ledger |-> l, changed |-> changed, crashed |-> FALSE]
    ELSE LET repo_file == Head(repo_files) IN
         IF \E i \in 1..Len(managed_files) : managed_files[i] = repo_file
         THEN ProcessFiles(fs, l, managed_files, params, check_mode,
                           Tail(repo_files), changed)
         ELSE IF "ignore_repo_files" \notin DOMAIN params
         THEN \* self.params['ignore_repo_files'] raises KeyError
              [files |-> fs, ledger |-> l, changed |-> changed,
               crashed |-> TRUE]
         ELSE LET ignore == params["ignore_repo_files"].l IN
              IF \E i \in 1..Len(ignore) : ignore[i] = repo_file
              THEN ProcessFiles(fs, l, managed_files, params, check_mode,
                                Tail(repo_files), changed)
              ELSE IF check_mode
              THEN ProcessFiles(fs, l, managed_files, params, check_mode,
                                Tail(repo_files), TRUE)
              ELSE ProcessFiles(
                       [f \in DOMAIN fs \ {repo_file} |-> fs[f]],
                       MMRemove(l, repo_file, check_mode).ledger,
                       managed_files, params, check_mode,
                       Tail(repo_files), TRUE)

\* process() that takes no repo file for a managed one
MMProcessNoLedger(fs, l, params, check_mode, repo_files) ==
    IF l.exists
    THEN ProcessFiles(fs, l, <<>>, params, check_mode, repo_files, FALSE)
    ELSE [files |-> fs, ledger |-> l, changed |-> FALSE, crashed |-> FALSE]

\* process() without the test that the managed file is on disk
MMProcessAlways(fs, l, params, check_mode, repo_files) ==
    ProcessFiles(fs, l, l.lines, params, check_mode, repo_files, FALSE)

\* ManagedMode.process, with the order glob() lists the repo files in
MMProcess(fs, l, params, check_mode, repo_files) ==
    IF l.exists
    THEN ProcessFiles(fs, l, l.lines, params, check_mode, repo_files, FALSE)
    ELSE [files |-> fs, ledger |-> l, changed |-> FALSE, crashed |-> FALSE]

(***************************************************************************)
(* main()                                                                  *)
(***************************************************************************)
Dict(d) == [t |-> "dict", d |-> d]

\* update() that skips the keys params gives None
UpdateParamsSkipNone(args) ==
    IF "params" \in DOMAIN args /\ args["params"].t = "dict"
    THEN LET d == args["params"].d IN
         [k \in (DOMAIN args \cup {j \in DOMAIN d : ~IsNone(d[j])})
                \ {"params"} |->
            IF k \in DOMAIN d /\ ~IsNone(d[k]) THEN d[k] ELSE args[k]]
    ELSE args

\* module.params.update(module.params['params']), then pop('params')
UpdateParams(args) ==
    IF "params" \in DOMAIN args /\ args["params"].t = "dict"
    THEN LET d == args["params"].d IN
         [k \in (DOMAIN args \cup DOMAIN d) \ {"params"} |->
            IF k \in DOMAIN d THEN d[k] ELSE args[k]]
    ELSE args

\* lines 967-974 and 586: repoid, name, file and dest of a repo request
RepoParams(p) ==
    LET file == IF IsNone(p["file"]) THEN p["name"] ELSE p["file"] IN
    [k \in ((DOMAIN p \cup {"repoid", "dest"})
            \ {"description", "ignore_repo_files"}) |->
        IF k = "repoid" THEN p["name"]
        ELSE IF k = "name" THEN p["description"]
        ELSE IF k \in {"file", "dest"} THEN file
        ELSE p[k]]

\* what a run of main() leaves and reports.  outcome is "ok" (exit_json),
\* "fail" (fail_json) or "crash" (an exception nothing catches); changed is
\* the flag before set_fs_attributes_if_different adjusts it
Result(fs, l, outcome, changed, doc, before, after) ==
    [files |-> fs, ledger |-> l, outcome |-> outcome, changed |-> changed,
     doc |-> doc, before |-> before, after |-> after]

\* the end of main() with save() called whenever the run is live
SaveUngated(fs, l, check_mode, io_fails, file, doc, yumrepo_before, yumrepo_after) ==
    LET changed == yumrepo_before # yumrepo_after
        saved == YumRepoSave(fs, file, doc, io_fails)
    IN  IF ~check_mode
        THEN IF saved.failed
             THEN Result(fs, l, "fail", changed, doc,
                         yumrepo_before, yumrepo_after)
             ELSE Result(saved.files, l, "ok", changed, doc,
                         yumrepo_before, yumrepo_after)
        ELSE Result(fs, l, "ok", changed, doc,
                    yumrepo_before, yumrepo_after)

\* lines 995-1003 of main(): the dumps compared, and save() when they differ
Save(fs, l, check_mode, io_fails, file, doc, yumrepo_before, yumrepo_after) ==
    LET changed == yumrepo_before # yumrepo_after
        saved == YumRepoSave(fs, file, doc, io_fails)
    IN  IF ~check_mode /\ changed
        THEN IF saved.failed
             THEN Result(fs, l, "fail", changed, doc,
                         yumrepo_before, yumrepo_after)
             ELSE Result(saved.files, l, "ok", changed, doc,
                         yumrepo_before, yumrepo_after)
        ELSE Result(fs, l, "ok", changed, doc,
                    yumrepo_before, yumrepo_after)

\* lines 979-996 of main(): the dump before, the request made of the ledger
\* and of the document yumrepo read, the dump after
Edit(fs, l, params, state, check_mode, cwd_isfile, io_fails, yumrepo) ==
    LET section == NameOf(params["repoid"])
        file == NameOf(params["file"])
        added == YumRepoAdd(yumrepo, section, params)
        doc == IF state = "present" THEN added.doc
               ELSE YumRepoRemove(yumrepo, section)
        l1 == IF state = "present" THEN MMAdd(l, file, check_mode).ledger
              ELSE IF ~cwd_isfile THEN MMRemove(l, file, check_mode).ledger
              ELSE l
    IN  IF state = "present" /\ added.failed
        THEN Result(fs, l, "fail", FALSE, doc, dump(yumrepo), <<>>)
        ELSE Save(fs, l1, check_mode, io_fails, file, doc,
                  dump(yumrepo), dump(doc))

\* lines 965-1011 of main(): state present or absent
RepoRequest(fs, l, p0, state, check_mode, cwd_isfile, io_fails) ==
    IF "ignore_repo_files" \notin DOMAIN p0
    THEN \* del module.params['ignore_repo_files'] raises KeyError
         Result(fs, l, "crash", FALSE, <<>>, <<>>, <<>>)
    ELSE LET params == RepoParams(p0) IN
         Edit(fs, l, params, state, check_mode, cwd_isfile, io_fails,
              YumRepoInit(fs, NameOf(params["file"])))

\* lines 1012-1022 of main(): state mm_enabled, mm_disabled or managed
ManagedRequest(fs, l, p0, state, check_mode, repo_files) ==
    IF state = "mm_enabled"
    THEN LET r == MMEnable(l, check_mode) IN
         Result(fs, r.ledger, "ok", r.changed, <<>>, <<>>, <<>>)
    ELSE IF state = "mm_disabled"
    THEN LET r == MMDisable(l, check_mode) IN
         Result(fs, r.ledger, "ok", r.changed, <<>>, <<>>, <<>>)
    ELSE LET r == MMProcess(fs, l, p0, check_mode, repo_files) IN
         Result(r.files, r.ledger, IF r.crashed THEN "crash" ELSE "ok",
                r.changed, <<>>, <<>>, <<>>)

\* main() without the test of baseurl and mirrorlist of lines 953-957
mainNoUrlTest(fs, l, args, check_mode, cwd_isfile, io_fails, repo_files) ==
    LET p0 == UpdateParams(args)
        name == p0["name"]
        state == NameOf(p0["state"])
        Fail == Result(fs, l, "fail", FALSE, <<>>, <<>>, <<>>)
    IN  IF state \in {"present", "absent"} /\ IsNone(name) THEN Fail
        ELSE IF state = "present" /\ IsNone(p0["description"]) THEN Fail
        ELSE IF state \in {"present", "absent"}
        THEN RepoRequest(fs, l, p0, state, check_mode, cwd_isfile, io_fails)
        ELSE ManagedRequest(fs, l, p0, state, check_mode, repo_files)

\* main(): args is module.params as AnsibleModule built it
main(fs, l, args, check_mode, cwd_isfile, io_fails, repo_files) ==
    LET p0 == UpdateParams(args)
        name == p0["name"]
        state == NameOf(p0["state"])
        Fail == Result(fs, l, "fail", FALSE, <<>>, <<>>, <<>>)
    IN  IF state \in {"present", "absent"} /\ IsNone(name) THEN Fail
        ELSE IF state = "present"
                /\ IsNone(p0["baseurl"]) /\ IsNone(p0["mirrorlist"])
        THEN Fail
        ELSE IF state = "present" /\ IsNone(p0["description"]) THEN Fail
        ELSE IF state \in {"present", "absent"}
        THEN RepoRequest(fs, l, p0, state, check_mode, cwd_isfile, io_fails)
        ELSE ManagedRequest(fs, l, p0, state, check_mode, repo_files)

(***************************************************************************)
(* The requests of the model: module.params as AnsibleModule hands it to   *)
(* main() (every key of argument_spec, None when not given).               *)
(***************************************************************************)
\* "x" and n blanks after it
X(n) == <<"x">> \o [i \in 1..n |-> " "]

Args(state, name, description, baseurl, mirrorlist, enabled, exclude, file, params) ==
    [k \in {"baseurl", "description", "enabled", "exclude", "file",
            "mirrorlist", "name", "params", "reposdir", "state"} |->
        CASE k = "baseurl" -> baseurl
          [] k = "description" -> description
          [] k = "enabled" -> enabled
          [] k = "exclude" -> exclude
          [] k = "file" -> file
          [] k = "mirrorlist" -> mirrorlist
          [] k = "name" -> name
          [] k = "params" -> params
          [] k = "reposdir" -> Str(<<"/etc/yum.repos.d">>)
          [] k = "state" -> Str(<<state>>)]

\* params: {ignore_repo_files: l}
Ignore(l) == Dict([k \in {"ignore_repo_files"} |-> List(l)])

\* params: {ignore_repo_files: [], foo: z}, a key no option of the module has
IgnoreFoo ==
    Dict([k \in {"ignore_repo_files", "foo"} |->
            IF k = "foo" THEN Str(<<"z">>) ELSE List(<<>>)])

\* params: {ignore_repo_files: [], mirrorlist: null}
IgnoreNull ==
    Dict([k \in {"ignore_repo_files", "mirrorlist"} |->
            IF k = "mirrorlist" THEN PyNone ELSE List(<<>>)])

\* params: {ignore_repo_files: [], baseurl: null}
IgnoreNoUrl ==
    Dict([k \in {"ignore_repo_files", "baseurl"} |->
            IF k = "baseurl" THEN PyNone ELSE List(<<>>)])

Description == Str(<<"d">>)

Excluded == List(<< <<"p">>, <<"q">> >>)

\* the repository a request defines, given baseurl, mirrorlist and params
Define(name, baseurl, mirrorlist, file, params) ==
    Args("present", name, Description, baseurl, mirrorlist, Bool(TRUE),
         Excluded, file, params)

\* the present requests that end well, unless the directory stops them
PresentArgs ==
    { Define(Str(<<"a">>), Str(X(n)), PyNone, PyNone, Ignore(<<>>)) :
        n \in 0..MaxPad }
    \cup
    { Define(Str(<<"a">>), Str(X(0)), Str(<<"m">>), PyNone, IgnoreNull),
      Define(Str(<<"a">>), Str(X(0)), PyNone, PyNone, IgnoreFoo) }

\* the present requests main() stops: no params; no baseurl and mirrorlist,
\* with ignore_repo_files, with the baseurl given taken away by params, and
\* without params; no name; no description
BadPresentArgs ==
    { Define(Str(<<"a">>), Str(X(0)), PyNone, PyNone, PyNone),
      Define(Str(<<"a">>), PyNone, PyNone, PyNone, Ignore(<<>>)),
      Define(PyNone, Str(X(0)), PyNone, PyNone, Ignore(<<>>)),
      Define(Str(<<"a">>), Str(X(0)), PyNone, PyNone, IgnoreNoUrl),
      Define(Str(<<"a">>), PyNone, PyNone, PyNone, PyNone),
      Args("present", Str(<<"a">>), PyNone, Str(X(0)), PyNone, PyNone, PyNone,
           PyNone, Ignore(<<>>)) }

Remove(name, file, params) ==
    Args("absent", name, PyNone, PyNone, PyNone, PyNone, PyNone, file,
         params)

AbsentArgs ==
    { Remove(Str(<<"a">>), PyNone, Ignore(<<>>)),
      Remove(Str(<<"b">>), Str(<<"a">>), Ignore(<<>>)) }

BadAbsentArgs == { Remove(Str(<<"a">>), PyNone, PyNone) }

ManagedArgs(state, params) ==
    Args(state, PyNone, PyNone, PyNone, PyNone, PyNone, PyNone, PyNone,
         params)

\* the orders the model lets glob() list the repo files in
Listings(S) ==
    LET up == SortedIn(SortedNames, S) IN
    {up, [i \in 1..Len(up) |-> up[Len(up) + 1 - i]]}

(***************************************************************************)
(* The repos directory before the first request: empty, or holding repo    *)
(* files somebody wrote by hand.                                           *)
(***************************************************************************)
Opt(k, v) == [k |-> k, v |-> v]

HandWritten ==
    [f \in {"a", "b", "c"} |->
        CASE f = "a" -> << [h |-> "a"], Opt("baseurl", <<"x">>),
                           Opt("enabled", <<"1">>),
                           Opt("exclude", <<"p", " ", "q">>),
                           Opt("mirrorlist", <<"m">>),
                           Opt("name", <<"d">>), [b |-> TRUE],
                           [h |-> "b"], Opt("name", <<"d">>),
                           Opt("baseurl", <<"x">>), [b |-> TRUE] >>
          [] f = "b" -> << [h |-> "b"], Opt("baseurl", <<"x">>),
                           Opt("name", <<"d">>), [b |-> TRUE] >>
          [] f = "c" -> << [h |-> "c"], Opt("baseurl", <<"x">>),
                           Opt("name", <<"d">>), [b |-> TRUE] >>]

EmptyDir == [f \in {} |-> <<>>]

NoLedger == [exists |-> FALSE, lines |-> <<>>]

NoArgs == [k \in {"state"} |-> Str(<<"none">>)]

Init ==
    /\ files \in {EmptyDir, HandWritten}
    /\ ledger = NoLedger
    /\ last = [args |-> NoArgs, check_mode |-> FALSE, cwd_isfile |-> FALSE,
               io_fails |-> FALSE,
               files |-> files, ledger |-> ledger, outcome |-> "none",
               changed |-> FALSE, doc |-> <<>>, before |-> <<>>,
               after |-> <<>>, live_outcome |-> "none",
               live_changed |-> FALSE, repeat |-> FALSE,
               tracking |-> FALSE, written |-> {}, written0 |-> {}]

(***************************************************************************)
(* One run of the module.  last keeps the request, the directory and the   *)
(* ledger it started from, what it reported, what the same request         *)
(* reports when run live from the same start, and whether the run before   *)
(* it was the same live request and ended well.  It also keeps the         *)
(* sections that present requests wrote since the last mm_enabled, while   *)
(* nothing but live present and absent requests that ended well followed   *)
(* it (tracking): written after the run, written0 before it.               *)
(***************************************************************************)
\* tracking after a run that ended with outcome
Tracking(args, check_mode, outcome) ==
    /\ ~check_mode /\ outcome = "ok"
    /\ \/ NameOf(args["state"]) = "mm_enabled"
       \/ last.tracking /\ NameOf(args["state"]) \in {"present", "absent"}

\* the sections written since mm_enabled, after a run that reported changed
Written(args, check_mode, outcome, changed) ==
    IF ~Tracking(args, check_mode, outcome)
       \/ NameOf(args["state"]) = "mm_enabled"
    THEN {}
    ELSE LET p0 == UpdateParams(args)
             section == NameOf(p0["name"])
             file == IF IsNone(p0["file"]) THEN section
                     ELSE NameOf(p0["file"])
             this == [file |-> file, section |-> section]
         IN  IF NameOf(args["state"]) = "absent"
             THEN last.written \ {this}
             ELSE IF changed THEN last.written \cup {this}
             ELSE last.written

Run(args, check_mode, cwd_isfile, io_fails, repo_files) ==
    \E r \in {main(files, ledger, args, check_mode, cwd_isfile, io_fails,
                   repo_files)} :
    \E live \in {IF check_mode
                 THEN main(files, ledger, args, FALSE, cwd_isfile, io_fails,
                           repo_files)
                 ELSE r} :
        /\ files' = r.files
        /\ ledger' = r.ledger
        /\ last' = [args |-> args, check_mode |-> check_mode,
                    cwd_isfile |-> cwd_isfile, io_fails |-> io_fails,
                    files |-> files, ledger |-> ledger,
                    outcome |-> r.outcome, changed |-> r.changed,
                    doc |-> r.doc, before |-> r.before, after |-> r.after,
                    live_outcome |-> live.outcome,
                    live_changed |-> live.changed,
                    repeat |-> /\ last.args = args
                               /\ ~last.check_mode /\ ~check_mode
                               /\ last.outcome = "ok",
                    tracking |-> Tracking(args, check_mode, r.outcome),
                    written |-> Written(args, check_mode, r.outcome,
                                        r.changed),
                    written0 |-> last.written]

\* state=present
Present ==
    \E args \in PresentArgs, check_mode \in BOOLEAN, io_fails \in BOOLEAN :
        /\ check_mode \/ io_fails => args["params"] = Ignore(<<>>)
        /\ io_fails => ~check_mode
        /\ Run(args, check_mode, FALSE, io_fails, <<>>)

\* state=present, a request main() stops
BadPresent ==
    \E args \in BadPresentArgs : Run(args, FALSE, FALSE, FALSE, <<>>)

\* state=absent; cwd_isfile: the working directory holds a file named as
\* the file parameter
Absent ==
    \E args \in AbsentArgs, check_mode \in BOOLEAN, cwd_isfile \in BOOLEAN,
       io_fails \in BOOLEAN :
        /\ cwd_isfile => ~check_mode /\ ~IsNone(args["file"])
        /\ io_fails => ~check_mode /\ ~cwd_isfile
        /\ Run(args, check_mode, cwd_isfile, io_fails, <<>>)

\* state=absent, a request main() stops
BadAbsent ==
    \E args \in BadAbsentArgs : Run(args, FALSE, FALSE, FALSE, <<>>)

\* state=mm_enabled
MMEnabled ==
    \E check_mode \in BOOLEAN :
        Run(ManagedArgs("mm_enabled", PyNone), check_mode, FALSE, FALSE, <<>>)

\* state=mm_disabled
MMDisabled ==
    \E check_mode \in BOOLEAN :
        Run(ManagedArgs("mm_disabled", PyNone), check_mode, FALSE, FALSE, <<>>)

\* state=managed
Managed ==
    \E params \in {PyNone, Ignore(<<>>), Ignore(<<"b">>)},
       check_mode \in BOOLEAN, repo_files \in Listings(DOMAIN files) :
        Run(ManagedArgs("managed", params), check_mode, FALSE, FALSE,
            repo_files)

Next ==
    \/ Present
    \/ BadPresent
    \/ Absent
    \/ BadAbsent
    \/ MMEnabled
    \/ MMDisabled
    \/ Managed

Spec == Init /\ [][Next]_vars

(***************************************************************************)
(* The methods of ManagedMode and YumRepo.save, called one at a time by a  *)
(* single actor, from a directory with no managed file.  last keeps the    *)
(* method, its argument, the directory and the ledger it started from,     *)
(* the document handed to save(), what the method reported, and the        *)
(* method called before it.                                                *)
(***************************************************************************)
Ids == {"a", "b", "c"}

InitMM ==
    /\ files \in {EmptyDir, HandWritten}
    /\ ledger = NoLedger
    /\ last = [op |-> "none", id |-> "", check_mode |-> FALSE,
               io_fails |-> FALSE, prev |-> "none", prev_live |-> FALSE,
               files |-> files, ledger |-> ledger, doc |-> <<>>,
               changed |-> FALSE, failed |-> FALSE]

\* what a call hands back: the directory, the ledger, changed, failed
Call(op, id, check_mode, io_fails, doc, fs, l, changed, failed) ==
    /\ files' = fs
    /\ ledger' = l
    /\ last' = [op |-> op, id |-> id, check_mode |-> check_mode,
                io_fails |-> io_fails,
                prev |-> last.op, prev_live |-> ~last.check_mode,
                files |-> files, ledger |-> ledger, doc |-> doc,
                changed |-> changed, failed |-> failed]

\* mm.enable()
Enable ==
    \E check_mode \in BOOLEAN :
    \E r \in {MMEnable(ledger, check_mode)} :
        Call("enable", "", check_mode, FALSE, <<>>, files, r.ledger,
             r.changed, FALSE)

\* mm.disable()
Disable ==
    \E check_mode \in BOOLEAN :
    \E r \in {MMDisable(ledger, check_mode)} :
        Call("disable", "", check_mode, FALSE, <<>>, files, r.ledger,
             r.changed, FALSE)

\* mm.add(id)
AddEntry ==
    \E id \in Ids, check_mode \in BOOLEAN :
    \E r \in {MMAdd(ledger, id, check_mode)} :
        Call("add", id, check_mode, FALSE, <<>>, files, r.ledger, r.changed,
             FALSE)

\* mm.remove(id)
RemoveEntry ==
    \E id \in Ids, check_mode \in BOOLEAN :
    \E r \in {MMRemove(ledger, id, check_mode)} :
        Call("remove", id, check_mode, FALSE, <<>>, files, r.ledger,
             r.changed, FALSE)

\* mm.process(), params holding the ignore_repo_files given
Sweep ==
    \E ignore \in {<<>>, <<"b">>}, check_mode \in BOOLEAN,
       repo_files \in Listings(DOMAIN files) :
    \E r \in {MMProcess(files, ledger, Ignore(ignore).d, check_mode,
                         repo_files)} :
        Call("process", "", check_mode, FALSE, <<>>, r.files, r.ledger,
             r.changed, r.crashed)

\* YumRepo(module) for the file id, remove() of the section id when drop,
\* then save()
Persist ==
    \E id \in Ids, drop \in BOOLEAN, io_fails \in BOOLEAN :
    \E doc \in {IF drop THEN YumRepoRemove(YumRepoInit(files, id), id)
                 ELSE YumRepoInit(files, id)} :
    \E r \in {YumRepoSave(files, id, doc, io_fails)} :
        Call("save", id, FALSE, io_fails, doc, r.files, ledger, FALSE,
             r.failed)

NextMM ==
    \/ Enable
    \/ Disable
    \/ AddEntry
    \/ RemoveEntry
    \/ Sweep
    \/ Persist

SpecMM == InitMM /\ [][NextMM]_vars

(***************************************************************************)
(* Two processes on one managed file: one runs remove(rm_id), the other    *)
(* add(ad_id), both live, each a sequence of system calls that the other   *)
(* may come between.  ledger is the file they share; last holds, for each  *)
(* process, where it is (pc) and its local variables, and between: the     *)
(* line add() wrote went into the file after remove() had read it and      *)
(* before remove() emptied it.                                             *)
(***************************************************************************)
\* the managed files the two processes may find
RaceLedgers ==
    {NoLedger} \cup
    {[exists |-> TRUE, lines |-> lines] :
        lines \in {<<>>, <<"a">>, <<"c">>, <<"a", "c">>, <<"c", "a">>,
                   <<"a", "b">>}}

InitRace ==
    /\ files = EmptyDir
    /\ ledger \in RaceLedgers
    /\ last \in [rm_pc : {"isfile"}, rm_id : {"a", "c"}, rm_lines : {<<>>},
                 rm_found : {FALSE}, rm_changed : {FALSE},
                 ad_pc : {"isfile"}, ad_id : {"b"}, ad_found : {FALSE},
                 ad_changed : {FALSE}, between : {FALSE}]

\* fd.write("%s\n" % repo_file) on a file opened 'a+'
WriteLineNowhere(l, repo_file) == l

WriteLine(l, repo_file) == [l EXCEPT !.lines = Append(@, repo_file)]

\* remove(): if os.path.isfile(self.file)
RmIsFile ==
    /\ last.rm_pc = "isfile"
    /\ last' = [last EXCEPT !.rm_pc = IF ledger.exists THEN "read"
                                      ELSE "done"]
    /\ UNCHANGED <<files, ledger>>

\* remove(): the file opened and read, the line found and popped
RmRead ==
    /\ last.rm_pc = "read"
    /\ \E found \in {IndexIn(ledger.lines, last.rm_id)} :
          last' = [last EXCEPT
                     !.rm_pc = IF ledger.exists THEN "enable" ELSE "failed",
                     !.rm_lines = IF found > 0 THEN Pop(ledger.lines, found)
                                  ELSE ledger.lines,
                     !.rm_changed = found > 0]
    /\ UNCHANGED <<files, ledger>>

\* enable(): not file_exists or os.path.getsize(self.file) > 0
RmEnable ==
    /\ last.rm_pc = "enable"
    /\ last' = [last EXCEPT
                  !.rm_pc = IF ~ledger.exists \/ Len(ledger.lines) > 0
                            THEN "truncate"
                            ELSE IF last.rm_lines = <<>> THEN "done"
                            ELSE "add_read"]
    /\ UNCHANGED <<files, ledger>>

\* enable(): open(self.file, 'w').close()
RmTruncate ==
    /\ last.rm_pc = "truncate"
    /\ ledger' = [exists |-> TRUE, lines |-> <<>>]
    /\ last' = [last EXCEPT
                  !.rm_pc = IF last.rm_lines = <<>> THEN "done"
                            ELSE "add_read"]
    /\ UNCHANGED files

\* add(line) of the loop of remove(): isfile, the file opened and read
RmAddRead ==
    /\ last.rm_pc = "add_read"
    /\ last' = [last EXCEPT
                  !.rm_pc = "add_write",
                  !.rm_found = \/ ~ledger.exists
                               \/ \E i \in 1..Len(ledger.lines) :
                                     ledger.lines[i] = Head(last.rm_lines)]
    /\ UNCHANGED <<files, ledger>>

\* add(line) of the loop of remove(): the line written, the file closed
RmAddWrite ==
    /\ last.rm_pc = "add_write"
    /\ ledger' = IF last.rm_found THEN ledger
                 ELSE WriteLine(ledger, Head(last.rm_lines))
    /\ last' = [last EXCEPT
                  !.rm_lines = Tail(@),
                  !.rm_pc = IF Tail(last.rm_lines) = <<>> THEN "done"
                            ELSE "add_read"]
    /\ UNCHANGED files

\* add(): if os.path.isfile(self.file)
AdIsFile ==
    /\ last.ad_pc = "isfile"
    /\ last' = [last EXCEPT !.ad_pc = IF ledger.exists THEN "read"
                                      ELSE "done"]
    /\ UNCHANGED <<files, ledger>>

\* add(): the file opened 'a+' and read, the line looked for
AdRead ==
    /\ last.ad_pc = "read"
    /\ last' = [last EXCEPT
                  !.ad_pc = "write",
                  !.ad_found = \E i \in 1..Len(ledger.lines) :
                                  ledger.lines[i] = last.ad_id]
    /\ UNCHANGED <<files, ledger>>

\* add(): the line written when not found, the file closed
AdWrite ==
    /\ last.ad_pc = "write"
    /\ ledger' = IF last.ad_found THEN ledger
                 ELSE WriteLine(ledger, last.ad_id)
    /\ last' = [last EXCEPT
                  !.ad_pc = "done",
                  !.ad_changed = ~last.ad_found,
                  !.between = /\ ~last.ad_found
                              /\ last.rm_pc \in {"enable", "truncate"}]
    /\ UNCHANGED files

NextRace ==
    \/ RmIsFile
    \/ RmRead
    \/ RmEnable
    \/ RmTruncate
    \/ RmAddRead
    \/ RmAddWrite
    \/ AdIsFile
    \/ AdRead
    \/ AdWrite

SpecRace == InitRace /\ [][NextRace]_vars

(***************************************************************************)
(* What the properties below read off a state.                             *)
(***************************************************************************)
LastState == NameOf(last.args["state"])
LastOk == last.outcome = "ok"
LastLive == ~last.check_mode

\* the repo id and the file id of the last present or absent request
LastRepoid == NameOf(last.args["name"])
LastFile ==
    IF IsNone(last.args["file"]) THEN LastRepoid
    ELSE NameOf(last.args["file"])

\* the value the last request gives key k, the params map merged in
Given(k) ==
    IF last.args["params"].t = "dict" /\ k \in DOMAIN last.args["params"].d
    THEN last.args["params"].d[k]
    ELSE IF k \in DOMAIN last.args THEN last.args[k] ELSE PyNone

\* the names of the sections of a file, in file order
Headers(lines) ==
    LET hs == SelectSeq(lines, LAMBDA line : "h" \in DOMAIN line) IN
    [i \in 1..Len(hs) |-> hs[i].h]

\* the keys of the options of a file's lines
KeysOf(lines) ==
    {lines[i].k : i \in {j \in 1..Len(lines) : "k" \in DOMAIN lines[j]}}

\* the entries of a ledger
Entries(l) == {l.lines[i] : i \in 1..Len(l.lines)}

\* the exempt list of the last request
Exempt ==
    LET v == Given("ignore_repo_files") IN
    IF v.t = "list" THEN {v.l[i] : i \in 1..Len(v.l)} ELSE {}

EmptyLedger == [exists |-> TRUE, lines |-> <<>>]

(***************************************************************************)
(* C1.  Idempotence of a present request: a live present request that is   *)
(* run right after the same live present request reports changed=false.    *)
(* The code does not keep this: a value that ends in a blank is written    *)
(* with the blank and read back without it.                                *)
(***************************************************************************)
C1_SecondRunUnchanged ==
    (LastState = "present" /\ LastOk /\ last.repeat) => ~last.changed

(***************************************************************************)
(* C2.  Sweep exemption: with the ledger enabled, a live process() deletes *)
(* exactly the repo files whose id is neither a ledger entry nor in the    *)
(* exempt list, leaves every other repo file as it was, and reports        *)
(* changed=true iff at least one file qualified.                           *)
(***************************************************************************)
C2_Qualified ==
    {f \in DOMAIN last.files : f \notin Entries(last.ledger) /\ f \notin Exempt}

C2_SweepExact ==
    (LastState = "managed" /\ LastLive /\ LastOk /\ last.ledger.exists) =>
        /\ DOMAIN files = DOMAIN last.files \ C2_Qualified
        /\ \A f \in DOMAIN files : files[f] = last.files[f]
        /\ last.changed <=> C2_Qualified # {}

C2_Witness ==
    /\ LastState = "managed" /\ LastLive /\ LastOk
    /\ last.ledger = [exists |-> TRUE, lines |-> <<"a">>]
    /\ Exempt = {"b"}
    /\ DOMAIN last.files = {"a", "b", "c"}
    /\ DOMAIN files = {"a", "b"}
    /\ last.changed

(***************************************************************************)
(* C3.  Dry-run purity: a run in check mode reports what the live run of   *)
(* the same request from the same start reports, and leaves every repo     *)
(* file and the ledger as they were.                                       *)
(***************************************************************************)
C3_DryRunPure ==
    last.check_mode =>
        /\ last.outcome = last.live_outcome
        /\ last.changed = last.live_changed
        /\ files = last.files
        /\ ledger = last.ledger

C3_Witness ==
    /\ last.check_mode /\ LastOk /\ LastState = "mm_enabled"
    /\ last.ledger.exists /\ Len(last.ledger.lines) > 0

(***************************************************************************)
(* C4.  Empty-document deletion: a live absent request that removes the    *)
(* only section of a repo file deletes the file; a live request that       *)
(* changes a document with at least one section leaves the file on disk,   *)
(* holding that document; and every repo file on disk holds at least one   *)
(* section.                                                                *)
(***************************************************************************)
C4_FileIffSection ==
    /\ \A f \in DOMAIN files : Len(Headers(files[f])) >= 1
    /\ (/\ LastState = "absent" /\ LastLive /\ LastOk
        /\ LastFile \in DOMAIN last.files
        /\ Headers(last.files[LastFile]) = <<LastRepoid>>)
       => LastFile \notin DOMAIN files
    /\ (/\ LastState \in {"present", "absent"} /\ LastLive /\ LastOk
        /\ last.changed /\ Len(last.doc) >= 1)
       => /\ LastFile \in DOMAIN files
          /\ Headers(files[LastFile]) = sections(last.doc)

C4_Witness ==
    /\ LastState = "absent" /\ LastLive /\ LastOk
    /\ LastFile \in DOMAIN last.files
    /\ Headers(last.files[LastFile]) = <<LastRepoid>>
    /\ LastFile \notin DOMAIN files

(***************************************************************************)
(* C5.  Replace-not-merge: the section add() builds holds exactly the      *)
(* allow-listed options the request gives a value other than None, also    *)
(* when the section was in the file with more options.                     *)
(***************************************************************************)
C5_Requested ==
    {k \in {"baseurl", "enabled", "exclude", "mirrorlist"} :
        ~IsNone(Given(k))} \cup {"name"}

C5_ReplaceNotMerge ==
    (LastState = "present" /\ LastOk) =>
        /\ has_section(last.doc, LastRepoid)
        /\ LET opts == SectionOf(last.doc, LastRepoid).opts IN
           {opts[i].k : i \in 1..Len(opts)} = C5_Requested

C5_Witness ==
    /\ LastState = "present" /\ LastOk /\ LastLive
    /\ LastFile \in DOMAIN last.files
    /\ LastRepoid \in {Headers(last.files[LastFile])[i] :
                        i \in 1..Len(Headers(last.files[LastFile]))}
    /\ "mirrorlist" \in KeysOf(last.files[LastFile])
    /\ "mirrorlist" \notin KeysOf(files[LastFile])

(***************************************************************************)
(* C6.  Allow-list filtering: no key outside allowed_params is in the      *)
(* section add() builds, in the text dump() gives for it, or in a written  *)
(* file, whatever the request and its params map hold.                     *)
(***************************************************************************)
C6_OnlyAllowedKeys ==
    /\ (LastState = "present" /\ LastOk) =>
          LET opts == SectionOf(last.doc, LastRepoid).opts IN
          \A i \in 1..Len(opts) : opts[i].k \in allowed_params
    /\ KeysOf(last.after) \subseteq allowed_params
    /\ \A f \in DOMAIN files : KeysOf(files[f]) \subseteq allowed_params

C6_Witness ==
    /\ LastState = "present" /\ LastOk /\ LastLive /\ last.changed
    /\ last.args["params"] = IgnoreFoo
    /\ LastFile \in DOMAIN files

(***************************************************************************)
(* C7.  As claimed: enable() on a ledger file that has content reports     *)
(* changed=true and empties it.                                            *)
(***************************************************************************)
C7_HadContent ==
    /\ LastState = "mm_enabled" /\ LastLive /\ LastOk
    /\ last.ledger.exists /\ Len(last.ledger.lines) > 0

C7_TruncateReportsChanged ==
    C7_HadContent => (last.changed /\ ledger = EmptyLedger)

(***************************************************************************)
(* C7, amended.  enable() on a ledger file that has content empties it and *)
(* reports changed=false: a change is registered only when the file was    *)
(* just created.                                                           *)
(***************************************************************************)
C7_TruncateReportsUnchanged ==
    C7_HadContent => (~last.changed /\ ledger = EmptyLedger)

C7_Witness == C7_HadContent /\ ledger = EmptyLedger

(***************************************************************************)
(* C8.  enable() run right after enable() reports changed=false and leaves *)
(* the ledger file existing and empty; enable() on an absent ledger        *)
(* creates it empty and reports changed=true.                              *)
(***************************************************************************)
C8_EnableTwice ==
    /\ (LastState = "mm_enabled" /\ LastOk /\ last.repeat) =>
          (~last.changed /\ ledger = EmptyLedger)
    /\ (LastState = "mm_enabled" /\ LastOk /\ LastLive
        /\ ~last.ledger.exists) =>
          (last.changed /\ ledger = EmptyLedger)

C8_Witness ==
    /\ LastState = "mm_enabled" /\ LastOk /\ last.repeat
    /\ last.ledger = EmptyLedger

(***************************************************************************)
(* C9.  An absent request removes the ledger entry of a repo file only     *)
(* when that file is no longer on disk: a live absent request that leaves  *)
(* the file holding other sections leaves its id in the ledger.  The code  *)
(* does not keep this: it tests the bare file parameter, not dest, and     *)
(* tests it before save().                                                 *)
(***************************************************************************)
C9_EntryKeptWhileFileExists ==
    (/\ LastState = "absent" /\ LastLive /\ LastOk
     /\ LastFile \in Entries(last.ledger)
     /\ LastFile \in DOMAIN files)
    => LastFile \in Entries(ledger)

(***************************************************************************)
(* C10.  Section order is preserved: after a live present request that     *)
(* redefines a section of an existing file, the sections of the file are   *)
(* in the order they were in before.  The code does not keep this: the     *)
(* redefined section goes to the end of the file.                          *)
(***************************************************************************)
C10_SectionOrderKept ==
    (/\ LastState = "present" /\ LastLive /\ LastOk
     /\ LastFile \in DOMAIN last.files
     /\ \E i \in 1..Len(Headers(last.files[LastFile])) :
            Headers(last.files[LastFile])[i] = LastRepoid)
    => Headers(files[LastFile]) = Headers(last.files[LastFile])

(***************************************************************************)
(* C11.  The text save() writes is the text dump() composes: after a live  *)
(* present or absent request that changed the document and left the file   *)
(* on disk, the lines of the file are the lines of the dump after the      *)
(* change, sections by name and the keys of every section in order.  The   *)
(* code does not keep this: write() puts sections and options in the       *)
(* order the document holds them.                                          *)
(***************************************************************************)
C11_SavedTextIsDump ==
    (/\ LastState \in {"present", "absent"} /\ LastLive /\ LastOk
     /\ last.changed /\ LastFile \in DOMAIN files)
    => files[LastFile] = last.after

(***************************************************************************)
(* C12.  A present request that gives neither baseurl nor mirrorlist, the  *)
(* params map merged in, ends in fail_json, leaves every repo file and     *)
(* the ledger as they were, and reports no change.                         *)
(***************************************************************************)
C12_NoUrl ==
    /\ LastState = "present"
    /\ IsNone(Given("baseurl")) /\ IsNone(Given("mirrorlist"))

C12_NoUrlRejected ==
    C12_NoUrl =>
        /\ last.outcome = "fail"
        /\ files = last.files
        /\ ledger = last.ledger
        /\ ~last.changed

C12_Witness ==
    /\ C12_NoUrl /\ last.outcome = "fail"
    /\ last.args["params"] = IgnoreNoUrl
    /\ ~IsNone(last.args["baseurl"])
    /\ last.ledger.exists
    /\ DOMAIN last.files = {}

(***************************************************************************)
(* C13.  A key the params map sets to null is a key never given: the run   *)
(* of the request ends, reports and builds the document as the run of the  *)
(* request without that key does, and the section holds no such option.    *)
(***************************************************************************)
\* the request without key k: not in params, None among the arguments
NeverGiven(args, k) ==
    [j \in DOMAIN args |->
        IF j = "params"
        THEN Dict([i \in DOMAIN args["params"].d \ {k} |->
                     args["params"].d[i]])
        ELSE IF j = k THEN PyNone
        ELSE args[j]]

C13_NullKeys ==
    IF LastState \in {"present", "absent"} /\ last.args["params"].t = "dict"
    THEN {k \in DOMAIN last.args["params"].d :
            IsNone(last.args["params"].d[k])}
    ELSE {}

C13_NullIsNeverGiven ==
    \A k \in C13_NullKeys :
        /\ \E r \in {main(last.files, last.ledger, NeverGiven(last.args, k),
                         last.check_mode, last.cwd_isfile, last.io_fails,
                         <<>>)} :
              /\ r.outcome = last.outcome
              /\ r.changed = last.changed
              /\ r.doc = last.doc
              /\ r.files = files
        /\ (LastState = "present" /\ LastOk) =>
              LET opts == SectionOf(last.doc, LastRepoid).opts IN
              \A i \in 1..Len(opts) : opts[i].k # k

C13_Witness ==
    /\ LastState = "present" /\ LastOk /\ LastLive /\ last.changed
    /\ C13_NullKeys = {"mirrorlist"}
    /\ ~IsNone(last.args["mirrorlist"])
    /\ LastFile \in DOMAIN files

(***************************************************************************)
(* C14.  A request that gives no ignore_repo_files runs with an empty      *)
(* exempt list: it ends in exit_json or fail_json, and a live managed      *)
(* request with the ledger enabled leaves exactly the repo files the       *)
(* ledger names.  The code does not keep this: main() deletes the key      *)
(* (line 970) and process() reads it (line 847), and no argument of the    *)
(* module puts it in module.params.                                        *)
(***************************************************************************)
C14_MissingListIsEmpty ==
    (/\ LastState \in {"present", "absent", "managed"}
     /\ IsNone(Given("ignore_repo_files")))
    => /\ last.outcome # "crash"
       /\ (LastState = "managed" /\ LastLive /\ last.ledger.exists) =>
             DOMAIN files = DOMAIN last.files \cap Entries(last.ledger)

(***************************************************************************)
(* C15.  add() with no managed file is a silent no-op: it reports          *)
(* changed=false and creates no file, so a present or absent request that  *)
(* starts with no managed file ends with none.                             *)
(***************************************************************************)
C15_AddWhileDisabled ==
    (LastState \in {"present", "absent"} /\ ~last.ledger.exists) =>
        /\ ledger = last.ledger
        /\ \A id \in Ids, check_mode \in BOOLEAN :
              MMAdd(last.ledger, id, check_mode) =
                  [ledger |-> last.ledger, changed |-> FALSE]

C15_Witness ==
    /\ LastState = "present" /\ LastOk /\ LastLive /\ last.changed
    /\ ~last.ledger.exists /\ ~ledger.exists
    /\ LastFile \in DOMAIN files /\ LastFile \notin DOMAIN last.files

(***************************************************************************)
(* C16.  save() of a document with no section, for a file that is not on   *)
(* disk, is a no-op and no error.  The code does not keep this:            *)
(* os.remove() of a file that does not exist raises OSError, and save()    *)
(* ends in fail_json.                                                      *)
(***************************************************************************)
C16_NothingToDelete ==
    (/\ last.op = "save" /\ Len(last.doc) = 0
     /\ last.id \notin DOMAIN last.files /\ ~last.io_fails)
    => (~last.failed /\ files = last.files)

(***************************************************************************)
(* C17.  Ledger uniqueness: from a directory with no managed file, after   *)
(* any sequence of enable, disable, add, remove and process calls of one   *)
(* actor, no identifier is on two lines of the managed file.               *)
(***************************************************************************)
C17_EntriesUnique ==
    \A i, j \in 1..Len(ledger.lines) :
        ledger.lines[i] = ledger.lines[j] => i = j

C17_Witness ==
    /\ last.op = "add" /\ ~last.check_mode
    /\ last.id \in Entries(last.ledger)
    /\ Len(ledger.lines) >= 2

(***************************************************************************)
(* C18.  remove(id), live, with the managed file on disk: when id is on a  *)
(* line, the file afterwards holds the lines it held without the first     *)
(* line that is id, in the order they were in, and changed=true; when id   *)
(* is on no line, changed=false and the file holds what it held.           *)
(***************************************************************************)
C18_LiveRemove ==
    last.op = "remove" /\ ~last.check_mode /\ last.ledger.exists

\* lines without the first line that is id
C18_WithoutFirst(lines, id) ==
    LET first == CHOOSE i \in 1..Len(lines) :
                    lines[i] = id /\ \A j \in 1..(i - 1) : lines[j] # id
    IN  [i \in 1..(Len(lines) - 1) |->
            IF i < first THEN lines[i] ELSE lines[i + 1]]

C18_RemoveFirstOnly ==
    C18_LiveRemove =>
        IF last.id \in Entries(last.ledger)
        THEN /\ last.changed
             /\ ledger.exists
             /\ ledger.lines = C18_WithoutFirst(last.ledger.lines, last.id)
        ELSE /\ ~last.changed
             /\ ledger = last.ledger

C18_Witness ==
    /\ C18_LiveRemove
    /\ Len(last.ledger.lines) = 3
    /\ last.ledger.lines[2] = last.id
    /\ Len(ledger.lines) = 2

(***************************************************************************)
(* C19.  add(id), live, with the managed file on disk: when id is on a     *)
(* line the file is left as it is and changed=false; otherwise id is the   *)
(* last line, the lines before it are the lines the file held, and         *)
(* changed=true.                                                           *)
(***************************************************************************)
C19_LiveAdd ==
    last.op = "add" /\ ~last.check_mode /\ last.ledger.exists

C19_AddAppends ==
    C19_LiveAdd =>
        IF last.id \in Entries(last.ledger)
        THEN /\ ~last.changed
             /\ ledger = last.ledger
        ELSE /\ last.changed
             /\ ledger.exists
             /\ Len(ledger.lines) = Len(last.ledger.lines) + 1
             /\ ledger.lines[Len(ledger.lines)] = last.id
             /\ \A i \in 1..Len(last.ledger.lines) :
                    ledger.lines[i] = last.ledger.lines[i]

C19_Witness ==
    /\ C19_LiveAdd
    /\ Len(last.ledger.lines) = 2
    /\ last.id \notin Entries(last.ledger)
    /\ Len(ledger.lines) = 3

(***************************************************************************)
(* C20.  The ledger is updated after the repo file is written: a live      *)
(* present or absent request whose save() fails leaves the ledger as it    *)
(* was.  The code does not keep this: mm.add() and mm.remove() are called  *)
(* before save().                                                          *)
(***************************************************************************)
C20_FailedWriteKeepsLedger ==
    (/\ LastState \in {"present", "absent"} /\ LastLive
     /\ last.io_fails /\ last.outcome = "fail")
    => ledger = last.ledger

(***************************************************************************)
(* C21.  Frame of a section edit: add() or remove() for the section of     *)
(* the request leaves every other section of the document, its name and    *)
(* every key and value, as read() gave it, so the dump of the other        *)
(* sections is the same before and after the edit.                         *)
(***************************************************************************)
\* the sections of a document other than section
C21_Others(doc, section) == SelectSeq(doc, LAMBDA s : s.name # section)

\* the document the last present or absent request read
C21_Read == YumRepoInit(last.files, LastFile)

C21_OtherSectionsKept ==
    (LastState \in {"present", "absent"} /\ LastOk) =>
        /\ C21_Others(last.doc, LastRepoid) = C21_Others(C21_Read, LastRepoid)
        /\ last.before = dump(C21_Read)
        /\ last.after = dump(last.doc)
        /\ dump(C21_Others(last.doc, LastRepoid))
              = dump(C21_Others(C21_Read, LastRepoid))

C21_Witness ==
    /\ LastState = "present" /\ LastOk /\ LastLive /\ last.changed
    /\ has_section(C21_Read, LastRepoid)
    /\ has_section(C21_Read, "b") /\ LastRepoid # "b"
    /\ has_section(last.doc, "b")

(***************************************************************************)
(* C22.  Change detection gates the write: changed is dump() before the    *)
(* edit # dump() after it, the repo files are touched only when changed    *)
(* is true and the run is live, and a request whose dumps are equal ends   *)
(* in exit_json with every repo file as it was.                            *)
(***************************************************************************)
\* the last request is a present or absent request main() lets through
C22_Valid ==
    /\ LastState \in {"present", "absent"}
    /\ ~IsNone(Given("name"))
    /\ ~IsNone(Given("ignore_repo_files"))
    /\ LastState = "present" =>
          /\ ~(IsNone(Given("baseurl")) /\ IsNone(Given("mirrorlist")))
          /\ ~IsNone(Given("description"))

C22_WriteOnlyWhenChanged ==
    C22_Valid =>
        /\ last.changed <=> (last.before # last.after)
        /\ files # last.files => (last.changed /\ LastLive)
        /\ last.before = last.after => (LastOk /\ files = last.files)

C22_Witness ==
    /\ C22_Valid /\ LastState = "present" /\ LastLive /\ LastOk
    /\ last.io_fails /\ ~last.changed
    /\ LastFile \in DOMAIN files

(***************************************************************************)
(* C23.  process() with no managed file is a no-op: it deletes no repo     *)
(* file, creates no managed file and reports changed=false, whatever the   *)
(* repo files and the exempt list.                                         *)
(***************************************************************************)
C23_SweepWhileDisabled ==
    (last.op = "process" /\ ~last.ledger.exists) =>
        /\ files = last.files
        /\ ledger = last.ledger
        /\ ~last.changed
        /\ ~last.failed

C23_Witness ==
    /\ last.op = "process" /\ ~last.check_mode /\ ~last.ledger.exists
    /\ DOMAIN last.files = {"a", "b", "c"}
    /\ DOMAIN files = {"a", "b", "c"}

(***************************************************************************)
(* C24.  disable() deletes the managed file and reports changed=true when  *)
(* the file is on disk, and does nothing and reports changed=false when    *)
(* it is not; after a live disable(), so also after enable() then          *)
(* disable(), there is no managed file.                                    *)
(***************************************************************************)
C24_Disable ==
    last.op = "disable" =>
        /\ last.changed <=> last.ledger.exists
        /\ ~last.ledger.exists => ledger = last.ledger
        /\ ~last.check_mode => ~ledger.exists
        /\ last.check_mode => ledger = last.ledger

C24_Witness ==
    /\ last.op = "disable" /\ ~last.check_mode
    /\ last.prev = "enable" /\ last.prev_live
    /\ last.ledger = EmptyLedger
    /\ last.changed /\ ~ledger.exists

(***************************************************************************)
(* C25.  Two processes can lose an update: remove(a) of one process and    *)
(* add(b) of another can both return, add(b) with changed=true, and leave  *)
(* a managed file without b.  That is so exactly when the line b went      *)
(* into the file after remove() had read it and before remove() emptied    *)
(* it; in every other order of the calls b stays.                          *)
(***************************************************************************)
C25_Lost ==
    /\ last.rm_pc = "done" /\ last.ad_pc = "done"
    /\ last.ad_changed
    /\ last.ad_id \notin Entries(ledger)

C25_LostIffBetween ==
    (last.rm_pc = "done" /\ last.ad_pc = "done" /\ last.ad_changed) =>
        (C25_Lost <=> last.between)

C25_Witness ==
    /\ C25_Lost
    /\ last.rm_id = "a" /\ last.rm_changed
    /\ last.ad_id = "b"
    /\ ledger = [exists |-> TRUE, lines |-> <<"c">>]

(***************************************************************************)
(* C26.  Managed files survive the sweep: after a live mm_enabled and then *)
(* live present and absent requests, a live managed request deletes no     *)
(* repo file that still holds a section one of those present requests      *)
(* wrote.  The code does not keep this: an absent request for another      *)
(* section of the file takes the file out of the ledger (C9).              *)
(***************************************************************************)
C26_WrittenFilesSurvive ==
    (LastState = "managed" /\ LastLive /\ LastOk) =>
        \A w \in last.written0 : w.file \in DOMAIN files

(***************************************************************************)
(* C27.  changed=false means nothing persistent changed: a live present    *)
(* or absent request that reports changed=false leaves the repo files and  *)
(* the managed file as they were.  The code does not keep this: what       *)
(* mm.add() and mm.remove() return is dropped.                             *)
(***************************************************************************)
C27_UnchangedMeansUntouched ==
    (/\ LastState \in {"present", "absent"} /\ LastLive /\ LastOk
     /\ ~last.changed)
    => (files = last.files /\ ledger = last.ledger)

(***************************************************************************)
(* C28.  The sweep leaves the entries of the ledger as they are: with the  *)
(* managed file on disk, the lines after process(), live or in check       *)
(* mode, are the lines before it.                                          *)
(***************************************************************************)
C28_SweepKeepsEntries ==
    (last.op = "process" /\ last.ledger.exists) => ledger = last.ledger

C28_Witness ==
    /\ last.op = "process" /\ ~last.check_mode /\ last.changed
    /\ Len(last.ledger.lines) = 2
    /\ DOMAIN files # DOMAIN last.files
    /\ ledger = last.ledger

====
